---- MODULE Spec2Model ----
(***************************************************************************)
(* Model of the poll loop of market-intel-bot (src/main.py, run_bot) with  *)
(* its two collaborators (src/telegram_bot.py, src/gemini_analyzer.py).    *)
(* Time is counted in seconds since the epoch; a timedelta is a number of  *)
(* seconds.  A JSON file is a record [exists, valid, data].  An optional   *)
(* value (Python None or a value) is the empty set or a singleton.         *)
(***************************************************************************)
EXTENDS Integers, Sequences, FiniteSets, TLC

(***************************************************************************)
(* Configuration, src/main.py lines 13-17.                                 *)
(***************************************************************************)
IMPACT_FILTER == {"low", "medium", "high"}
COUNTRY_FILTER == {"US", "EZ", "CN", "GB", "JP", "DE", "FR", "AU", "CH", "IN"}
PRE_ALERT_MINUTES == 5
ACTIVE_AFTER_MINUTES == 3
POST_ANALYSIS_MINUTES == 3
SLEEP_SECONDS == 60
BACKOFF_SECONDS == 300
SecondsPerMinute == 60
SecondsPerDay == 86400

(***************************************************************************)
(* Bounds of the model.                                                    *)
(***************************************************************************)
MaxEvents == 2
MaxSent == 2
MaxRestarts == 1

None == {}
Some(v) == {v}

\* timedelta(minutes=m)
timedelta(m) == m * SecondsPerMinute

\* the year of an instant in place of its date
DateOf_Year(t) == t \div (365 * SecondsPerDay)

\* datetime.date() of an instant
DateOf(t) == t \div SecondsPerDay

(***************************************************************************)
(* The calendar entries the provider may return.  TA is 00:05:00 of day 1, *)
(* so that the instant TA - 5 min is the first second of that day; TD is   *)
(* 150 s before TA.  "TBD" is a date string that is not an ISO date.       *)
(***************************************************************************)
TA == SecondsPerDay + timedelta(PRE_ALERT_MINUTES)
TD == TA - 150
DateA == "1970-01-02T00:05:00Z"
DateD == "1970-01-02T00:02:30Z"
DateBad == "TBD"

\* datetime.fromisoformat(s.replace('Z', '+00:00')): defined on ISO strings only
IsoInstant == (DateA :> TA) @@ (DateD :> TD)
IsIsoDate(s) == s \in DOMAIN IsoInstant
fromisoformat(s) == IsoInstant[s]

Ev(n, c, i, d, a) ==
    [eventName |-> n, country |-> c, impact |-> i, date |-> d, actual |-> a]

\* the entries one provider serves during a run: each fetch returns a
\* sequence of at most MaxEvents of them, in any order, repeats included
Providers ==
    { { Ev("CPI", "US", "high", DateA, None),
        Ev("CPI", "US", "high", DateA, Some(0)),
        Ev("CPI", "US", "high", DateA, Some(31)) },
      { Ev("CPI", "US", "high", DateA, None),
        Ev("CPI", "US", "high", DateA, Some(31)),
        Ev("NFP", "US", "medium", DateD, None) },
      { Ev("CPI", "US", "high", DateA, Some(31)),
        Ev("GDP", "BR", "high", DateA, Some(31)),
        Ev("PPI", "US", "holiday", DateA, Some(31)) },
      { Ev("CPI", "US", "high", DateA, None),
        Ev("CPI", "US", "high", DateA, Some(31)),
        Ev("ISM", "US", "high", DateBad, None) } }

Calendars(entries) == UNION { [1..n -> entries] : n \in 0..MaxEvents }

\* the instants at which the loop may read the clock
TimePoints ==
    { TA - 301, TA - 300, TA - 181, TA - 180, TA - 60, TA, TA + 30,
      TA + 179, TA + 180, TA + 300, TA + 301 }

(***************************************************************************)
(* A fetch returns None or the calendar (fetch_daily_schedule).            *)
(***************************************************************************)
FetchFailed == [ok |-> FALSE, data |-> << >>]
FetchOk(cal) == [ok |-> TRUE, data |-> cal]
FetchResults(entries) ==
    {FetchFailed} \cup { FetchOk(cal) : cal \in Calendars(entries) }

SendResults == {"ok", "failed"}
Analyses == {"ok", "error", "empty"}

(***************************************************************************)
(* JSON files.                                                             *)
(***************************************************************************)
FileMissing(default) == [exists |-> FALSE, valid |-> FALSE, data |-> default]
FileCorrupt(default) == [exists |-> TRUE, valid |-> FALSE, data |-> default]
FileWith(d) == [exists |-> TRUE, valid |-> TRUE, data |-> d]

\* load_json_file(filename, default_value)
load_json_file(file, default_value) ==
    IF ~file.exists THEN default_value
    ELSE IF file.valid THEN file.data
    ELSE default_value

\* save_json_file(filename, data)
save_json_file(data) == FileWith(data)

\* the write that keeps only the new id
save_processed_event_Overwrite(file, event_id) == save_json_file({event_id})

\* save_processed_event(event_id): the new contents of STATE_FILE
save_processed_event(file, event_id) ==
    save_json_file(load_json_file(file, {}) \cup {event_id})

(***************************************************************************)
(* Identifiers (lines 114-116).                                            *)
(***************************************************************************)
event_id(event) == <<event.eventName, event.country, event.date>>
pre_alert_id(event) == <<"pre">> \o event_id(event)
post_analysis_id(event) == <<"post">> \o event_id(event)

EventUniverse == UNION Providers

ActionIds ==
    { pre_alert_id(e) : e \in EventUniverse } \cup
    { post_analysis_id(e) : e \in EventUniverse }

(***************************************************************************)
(* The conditions of run_bot.                                              *)
(***************************************************************************)
\* InActiveWindow with the upper bound excluded
InActiveWindow_Strict(event, now) ==
    LET time_to_event == fromisoformat(event.date) - now
    IN  /\ timedelta(0 - PRE_ALERT_MINUTES) <= time_to_event
        /\ time_to_event < timedelta(ACTIVE_AFTER_MINUTES)

\* line 91
InActiveWindow(event, now) ==
    LET time_to_event == fromisoformat(event.date) - now
    IN  /\ timedelta(0 - PRE_ALERT_MINUTES) <= time_to_event
        /\ time_to_event <= timedelta(ACTIVE_AFTER_MINUTES)

\* lines 83-93: "active", "dormant", or "raise" when a date does not parse
RECURSIVE ScanFrom(_, _, _)
ScanFrom(schedule, i, now) ==
    IF i > Len(schedule) THEN "dormant"
    ELSE IF ~IsIsoDate(schedule[i].date) THEN "raise"
    ELSE IF InActiveWindow(schedule[i], now) THEN "active"
    ELSE ScanFrom(schedule, i + 1, now)

ScanSchedule(schedule, now) == ScanFrom(schedule, 1, now)

\* EventsToProcess with a failed fetch read as an empty calendar
EventsToProcess_NoStale(live_data, schedule) ==
    IF live_data.ok THEN live_data.data ELSE << >>

\* EventsToProcess with a truth test ("live_data if live_data else schedule")
EventsToProcess_Truthy(live_data, schedule) ==
    IF live_data.ok /\ live_data.data # << >> THEN live_data.data ELSE schedule

\* line 107
EventsToProcess(live_data, schedule) ==
    IF live_data.ok THEN live_data.data ELSE schedule

\* PassesFilter without the country test
PassesFilter_ImpactOnly(event) == event.impact \in IMPACT_FILTER

\* line 110 (the negation of the skip condition)
PassesFilter(event) ==
    event.impact \in IMPACT_FILTER /\ event.country \in COUNTRY_FILTER

\* the pre-alert window closed at the scheduled time
PreAlertDue_Inclusive(event, now) ==
    LET time_to_event == fromisoformat(event.date) - now
    IN  timedelta(0) <= time_to_event /\ time_to_event <= timedelta(PRE_ALERT_MINUTES)

\* line 120
PreAlertDue(event, now) ==
    LET time_to_event == fromisoformat(event.date) - now
    IN  timedelta(0) < time_to_event /\ time_to_event <= timedelta(PRE_ALERT_MINUTES)

\* ActualPresent as a truth test ("if event.get('actual'):")
ActualPresent_Truthy(event) == event.actual \notin {None, Some(0)}

\* line 131
ActualPresent(event) == event.actual # None

\* the post-analysis window without its end
PostAnalysisDue_NoEnd(event, now) ==
    LET time_since_release == now - fromisoformat(event.date)
    IN  timedelta(0) <= time_since_release

\* line 133
PostAnalysisDue(event, now) ==
    LET time_since_release == now - fromisoformat(event.date)
    IN  /\ timedelta(0) <= time_since_release
        /\ time_since_release < timedelta(POST_ANALYSIS_MINUTES)

\* AlreadyProcessed without the look-up in processed_ids
AlreadyProcessed_Never(id, ids) == FALSE

\* lines 121, 134
AlreadyProcessed(id, ids) == id \in ids

\* AnalysisUsable without the test for the error marker ("if analysis:")
AnalysisUsable_NotEmpty(analysis) == analysis # "empty"

\* line 146
AnalysisUsable(analysis) == analysis # "empty" /\ analysis # "error"


\* SaveAfterSend with the save made only after a delivered message
SaveAfterSend_Delivered(send_result) == send_result = "ok"

\* lines 127-128 and 153-154: the id is saved whatever send_message did
SaveAfterSend(send_result) == TRUE

(***************************************************************************)
(* State.                                                                  *)
(*   provider                 the entries the calendar provider serves     *)
(*   pc                       "idle" at the top of the while loop,         *)
(*                            "events" inside the for loop of line 109,    *)
(*                            "except" inside the handler of line 158      *)
(*   now_utc, last_schedule_fetch_date, processed_ids, events_to_process   *)
(*                            the locals of run_bot; the last two are dead *)
(*                            at the top of the loop and are reset there   *)
(*   idx                      position of the for loop of line 109         *)
(*   schedule_file, state_file  SCHEDULE_FILE and STATE_FILE               *)
(*   cycle                    what the current cycle did in lines 72-107   *)
(*   sleep_for                seconds slept since now_utc was read         *)
(*   log                      the collaborator calls and ledger writes of  *)
(*                            the current cycle, in order                  *)
(*   sent                     notifications dispatched so far per action   *)
(*                            id, counted up to MaxSent                    *)
(*   undelivered              the action ids whose notification failed to  *)
(*                            be delivered in an earlier cycle             *)
(*   scenario                 how far the run has followed the CPI trace   *)
(*                            of ScenarioNext                              *)
(*   analysis_failed          the post-analysis ids whose enrichment call  *)
(*                            failed in an earlier cycle of this process   *)
(*   fetched_for_date         the calendar day of the last daily fetch     *)
(*                            that succeeded since the process started     *)
(*   restarts                 how many times the process has died and      *)
(*                            been started again                           *)
(***************************************************************************)
VARIABLES provider, pc, now_utc, last_schedule_fetch_date, schedule_file,
          state_file, cycle, events_to_process, processed_ids, idx, sleep_for,
          log, sent, undelivered, scenario, analysis_failed, fetched_for_date,
          restarts

vars == <<provider, pc, now_utc, last_schedule_fetch_date, schedule_file,
          state_file, cycle, events_to_process, processed_ids, idx, sleep_for,
          log, sent, undelivered, scenario, analysis_failed, fetched_for_date,
          restarts>>

\* a call made, or a ledger write done, while handling entry number at
Op(op, id, at, res) == [op |-> op, id |-> id, at |-> at, res |-> res]

ErrorMessage == <<"error">>

\* the STATE_FILE after the save operations of ops, in order
RECURSIVE ApplySaves(_, _)
ApplySaves(file, ops) ==
    IF ops = << >> THEN file
    ELSE ApplySaves(IF Head(ops).op = "save"
                    THEN save_processed_event(file, Head(ops).id)
                    ELSE file,
                    Tail(ops))

\* the dispatch counters after the send operations of ops
RECURSIVE CountSends(_, _)
CountSends(count, ops) ==
    IF ops = << >> THEN count
    ELSE CountSends(IF Head(ops).op = "send" /\ count[Head(ops).id] < MaxSent
                    THEN [count EXCEPT ![Head(ops).id] = @ + 1]
                    ELSE count,
                    Tail(ops))

\* lines 118-121: the pre-alert of the event is to be sent
PreAlertFires(event, now, ids) ==
    PreAlertDue(event, now) /\ ~AlreadyProcessed(pre_alert_id(event), ids)

\* lines 131-134: the post-analysis of the event is to be attempted
PostAnalysisFires(event, now, ids) ==
    /\ ActualPresent(event)
    /\ PostAnalysisDue(event, now)
    /\ ~AlreadyProcessed(post_analysis_id(event), ids)

\* the pre-alert recorded before it is sent
PreAlertOps_SaveFirst(event, at, send_result) ==
    <<Op("save", pre_alert_id(event), at, "ok"),
      Op("send", pre_alert_id(event), at, send_result)>>

\* lines 122-128 for the entry at position at
PreAlertOps(event, at, send_result) ==
    <<Op("send", pre_alert_id(event), at, send_result)>> \o
    (IF SaveAfterSend(send_result)
     THEN <<Op("save", pre_alert_id(event), at, "ok")>> ELSE << >>)

\* lines 135-154 for the entry at position at
PostAnalysisOps(event, at, analysis, send_result) ==
    <<Op("analyze", post_analysis_id(event), at, analysis)>> \o
    (IF AnalysisUsable(analysis)
     THEN <<Op("send", post_analysis_id(event), at, send_result)>> \o
          (IF SaveAfterSend(send_result)
           THEN <<Op("save", post_analysis_id(event), at, "ok")>> ELSE << >>)
     ELSE << >>)

\* the ids whose analyze_event call returned no usable result among ops
FailedAnalyses(ops) ==
    { ops[i].id : i \in { j \in 1..Len(ops) :
                            ops[j].op = "analyze" /\ ops[j].res # "ok" } }

\* the ids whose send_message call failed among ops
FailedSends(ops) ==
    { ops[i].id : i \in { j \in 1..Len(ops) :
                            ops[j].op = "send" /\ ops[j].res = "failed" } }
          \cap ActionIds

(***************************************************************************)
(* The trace of three cycles on the single entry CPI/US/high at TA: stage  *)
(* k is reached when the first k cycles of the run were                    *)
(*   1. at TA - 3 min, no fetch failed, the snapshot shows no actual;      *)
(*   2. at TA - 1 min, no fetch failed, the snapshot shows no actual;      *)
(*   3. at TA + 30 s, no fetch failed, the snapshot shows actual 3.1 and   *)
(*      no analysis failed.                                                *)
(* "off" is the stage of every other run.                                  *)
(***************************************************************************)
CPI(actual) == Ev("CPI", "US", "high", DateA, actual)

ScenarioInput(stage, now, kind, snapshot, ops) ==
    /\ kind \in {"live", "dormant"}
    /\ \/ /\ stage = "start"
          /\ now = TA - timedelta(3) /\ snapshot = <<CPI(None)>>
       \/ /\ stage = "pre_done"
          /\ now = TA - timedelta(1) /\ snapshot = <<CPI(None)>>
       \/ /\ stage = "quiet_done"
          /\ now = TA + 30 /\ snapshot = <<CPI(Some(31))>>
          /\ \A i \in 1..Len(ops) : ops[i].op = "analyze" => ops[i].res = "ok"

ScenarioNext(stage, now, kind, snapshot, ops) ==
    IF ~ScenarioInput(stage, now, kind, snapshot, ops) THEN "off"
    ELSE IF stage = "start" THEN "pre_done"
    ELSE IF stage = "pre_done" THEN "quiet_done"
    ELSE "post_done"

\* lines 64-66: run_bot has been called, no file has been written yet
Start ==
    /\ pc = "idle"
    /\ now_utc = 0
    /\ last_schedule_fetch_date = None
    /\ schedule_file = FileMissing(<< >>)
    /\ state_file = FileMissing({})
    /\ cycle = "none"
    /\ events_to_process = << >>
    /\ processed_ids = {}
    /\ idx = 1
    /\ sleep_for = 0
    /\ log = << >>
    /\ sent = [id \in ActionIds |-> 0]
    /\ undelivered = {}
    /\ scenario = "start"
    /\ analysis_failed = {}
    /\ fetched_for_date = None
    /\ restarts = 0

Init == provider \in Providers /\ Start

(***************************************************************************)
(* Lines 70-107: read the clock, refresh the schedule once per day, look   *)
(* for an event near now, fetch again in burst mode, load the ledger.      *)
(***************************************************************************)
\* lines 81-107, with file1 the SCHEDULE_FILE after lines 72-79
ScanAndLoad(t, file1) ==
    LET schedule == load_json_file(file1, << >>)
        scan == ScanSchedule(schedule, t)
    IN  /\ last_schedule_fetch_date' = Some(DateOf(t))
        /\ sleep_for' = 0
        /\ idx' = 1
        /\ CASE scan = "raise" ->
                  /\ cycle' = "raised"
                  /\ pc' = "except"
                  /\ schedule_file' = file1
                  /\ UNCHANGED <<events_to_process, processed_ids>>
             [] scan = "dormant" ->
                  /\ cycle' = "dormant"
                  /\ pc' = "events"
                  /\ schedule_file' = file1
                  /\ events_to_process' =
                         EventsToProcess(FetchOk(<< >>), schedule)
                  /\ processed_ids' = load_json_file(state_file, {})
             [] scan = "active" ->
                  \E burst \in FetchResults(provider) :
                      /\ cycle' = IF burst.ok THEN "live" ELSE "stale"
                      /\ pc' = "events"
                      /\ schedule_file' =
                             IF burst.ok THEN save_json_file(burst.data)
                             ELSE file1
                      /\ events_to_process' = EventsToProcess(burst, schedule)
                      /\ processed_ids' = load_json_file(state_file, {})

BeginCycle ==
    /\ pc = "idle"
    /\ \E t \in TimePoints :
        /\ t >= now_utc + sleep_for
        /\ now_utc' = t
        /\ log' = << >>
        /\ IF last_schedule_fetch_date # Some(DateOf(t))
           THEN \E daily \in FetchResults(provider) :
                  IF daily.ok
                  THEN ScanAndLoad(t, save_json_file(daily.data))
                       /\ fetched_for_date' = Some(t \div SecondsPerDay)
                       /\ UNCHANGED scenario
                  ELSE \* lines 77-79: sleep and continue
                       /\ cycle' = "skipped"
                       /\ scenario' = "off"
                       /\ sleep_for' = SLEEP_SECONDS
                       /\ UNCHANGED <<pc, last_schedule_fetch_date,
                                      schedule_file, events_to_process,
                                      processed_ids, idx, fetched_for_date>>
           ELSE ScanAndLoad(t, schedule_file)
                /\ UNCHANGED <<scenario, fetched_for_date>>
    /\ UNCHANGED <<provider, state_file, sent, undelivered, analysis_failed,
                   restarts>>

(***************************************************************************)
(* Lines 109-154: one iteration of the for loop.                           *)
(***************************************************************************)
ProcessEvent ==
    /\ pc = "events"
    /\ idx <= Len(events_to_process)
    /\ LET event == events_to_process[idx]
       IN  IF ~PassesFilter(event)
           THEN /\ idx' = idx + 1
                /\ UNCHANGED <<pc, state_file, log, sent>>
           ELSE IF ~IsIsoDate(event.date)
           THEN /\ pc' = "except"
                /\ UNCHANGED <<idx, state_file, log, sent>>
           ELSE \E pre \in IF PreAlertFires(event, now_utc, processed_ids)
                           THEN { PreAlertOps(event, idx, r) :
                                    r \in SendResults }
                           ELSE { << >> } :
                \E post \in IF PostAnalysisFires(event, now_utc, processed_ids)
                            THEN { PostAnalysisOps(event, idx, a, r) :
                                     a \in Analyses, r \in SendResults }
                            ELSE { << >> } :
                    /\ idx' = idx + 1
                    /\ log' = log \o pre \o post
                    /\ state_file' = ApplySaves(state_file, pre \o post)
                    /\ sent' = CountSends(sent, pre \o post)
                    /\ UNCHANGED pc
    /\ UNCHANGED <<provider, now_utc, last_schedule_fetch_date, schedule_file,
                   cycle, events_to_process, processed_ids, sleep_for,
                   undelivered, scenario, analysis_failed, fetched_for_date,
                   restarts>>

\* line 156: the for loop is over, sleep and start the next cycle
Sleep ==
    /\ pc = "events"
    /\ idx > Len(events_to_process)
    /\ pc' = "idle"
    /\ cycle' = "slept"
    /\ sleep_for' = SLEEP_SECONDS
    /\ events_to_process' = << >>
    /\ processed_ids' = {}
    /\ idx' = 1
    /\ log' = << >>
    /\ undelivered' = undelivered \cup FailedSends(log)
    /\ scenario' = ScenarioNext(scenario, now_utc, cycle,
                                load_json_file(schedule_file, << >>), log)
    /\ analysis_failed' = analysis_failed \cup FailedAnalyses(log)
    /\ UNCHANGED <<provider, now_utc, last_schedule_fetch_date, schedule_file,
                   state_file, sent, fetched_for_date, restarts>>

\* the handler without the longer sleep
HandleException_NoBackoff ==
    /\ pc = "except"
    /\ \E send_result \in SendResults :
          log' = Append(log, Op("send", ErrorMessage, 0, send_result))
    /\ pc' = "idle"
    /\ cycle' = "raised"
    /\ sleep_for' = SLEEP_SECONDS
    /\ events_to_process' = << >>
    /\ processed_ids' = {}
    /\ idx' = 1
    /\ undelivered' = undelivered \cup FailedSends(log)
    /\ scenario' = "off"
    /\ analysis_failed' = analysis_failed \cup FailedAnalyses(log)
    /\ UNCHANGED <<provider, now_utc, last_schedule_fetch_date, schedule_file,
                   state_file, sent, fetched_for_date, restarts>>

\* lines 158-161: report the error, back off, start the next cycle
HandleException ==
    /\ pc = "except"
    /\ \E send_result \in SendResults :
          log' = Append(log, Op("send", ErrorMessage, 0, send_result))
    /\ pc' = "idle"
    /\ cycle' = "raised"
    /\ sleep_for' = BACKOFF_SECONDS
    /\ events_to_process' = << >>
    /\ processed_ids' = {}
    /\ idx' = 1
    /\ undelivered' = undelivered \cup FailedSends(log)
    /\ scenario' = "off"
    /\ analysis_failed' = analysis_failed \cup FailedAnalyses(log)
    /\ UNCHANGED <<provider, now_utc, last_schedule_fetch_date, schedule_file,
                   state_file, sent, fetched_for_date, restarts>>

Next == BeginCycle \/ ProcessEvent \/ Sleep \/ HandleException

Spec == Init /\ [][Next]_vars

(***************************************************************************)
(* The ledger file may be deleted, or overwritten with text that is not    *)
(* JSON, while the loop sleeps.                                            *)
(***************************************************************************)
DeleteLedger ==
    /\ pc = "idle"
    /\ state_file.exists
    /\ state_file' = FileMissing({})
    /\ UNCHANGED <<provider, pc, now_utc, last_schedule_fetch_date,
                   schedule_file, cycle, events_to_process, processed_ids, idx,
                   sleep_for, log, sent, undelivered, scenario,
                   analysis_failed, fetched_for_date, restarts>>

CorruptLedger ==
    /\ pc = "idle"
    /\ state_file.exists /\ state_file.valid
    /\ state_file' = FileCorrupt({})
    /\ UNCHANGED <<provider, pc, now_utc, last_schedule_fetch_date,
                   schedule_file, cycle, events_to_process, processed_ids, idx,
                   sleep_for, log, sent, undelivered, scenario,
                   analysis_failed, fetched_for_date, restarts>>

NextFault == Next \/ DeleteLedger \/ CorruptLedger

SpecFault == Init /\ [][NextFault]_vars

(***************************************************************************)
(* The process may die at any point and be started again.  The files keep  *)
(* what was written; run_bot starts over at line 66 with no fetch date.    *)
(***************************************************************************)
\* line 35: open(filename, 'w') has emptied the file, json.dump has not
\* written it yet
open_for_write(file) == FileCorrupt({})

\* lines 109-154 for the entry at position at: the sequences of calls that
\* the entry can make
EventOps(event, at, now, ids) ==
    IF ~PassesFilter(event) \/ ~IsIsoDate(event.date) THEN { << >> }
    ELSE { pre \o post :
             pre \in (IF PreAlertFires(event, now, ids)
                      THEN { PreAlertOps(event, at, r) : r \in SendResults }
                      ELSE { << >> }),
             post \in (IF PostAnalysisFires(event, now, ids)
                       THEN { PostAnalysisOps(event, at, a, r) :
                                a \in Analyses, r \in SendResults }
                       ELSE { << >> }) }

\* the process dies in a cycle, after the first k calls of the entry it is
\* handling (torn: inside the next call, a save, after line 35 emptied the
\* file) or between two entries, and is started again; the monitors
\* undelivered and analysis_failed describe one run of the process
Crash ==
    /\ \E ops \in (IF pc = "events" /\ idx <= Len(events_to_process)
                   THEN EventOps(events_to_process[idx], idx, now_utc,
                                 processed_ids)
                   ELSE { << >> }) :
       \E k \in 0..Len(ops), torn \in BOOLEAN :
          /\ torn => (k < Len(ops) /\ ops[k + 1].op = "save")
          /\ state_file' =
                IF torn
                THEN open_for_write(ApplySaves(state_file, SubSeq(ops, 1, k)))
                ELSE ApplySaves(state_file, SubSeq(ops, 1, k))
          /\ sent' = CountSends(sent, SubSeq(ops, 1, k))
    /\ pc # "idle"
    /\ restarts < MaxRestarts
    /\ restarts' = restarts + 1
    /\ pc' = "idle"
    /\ cycle' = "crashed"
    /\ last_schedule_fetch_date' = None
    /\ fetched_for_date' = None
    /\ sleep_for' = 0
    /\ events_to_process' = << >>
    /\ processed_ids' = {}
    /\ idx' = 1
    /\ log' = << >>
    /\ scenario' = "off"
    /\ undelivered' = {}
    /\ analysis_failed' = {}
    /\ UNCHANGED <<provider, now_utc, schedule_file>>

NextCrash == Next \/ Crash

\* the runs with restarts, and the runs checked for progress, follow a
\* provider that lists one released event and one entry whose date cannot
\* be parsed
FaultyProvider ==
    { Ev("CPI", "US", "high", DateA, Some(31)),
      Ev("ISM", "US", "high", DateBad, None) }

InitFaulty == provider = FaultyProvider /\ Start

SpecCrash == InitFaulty /\ [][NextCrash]_vars

\* the loop is the only thread of the process: it always takes its next step
SpecLive == InitFaulty /\ [][Next]_vars /\ WF_vars(Next)

TypeOK ==
    /\ pc \in {"idle", "events", "except"}
    /\ cycle \in {"none", "skipped", "raised", "dormant", "live", "stale", "slept",
                  "crashed"}
    /\ idx \in 1..(MaxEvents + 1)
    /\ processed_ids \subseteq ActionIds
    /\ state_file.data \subseteq ActionIds
    /\ undelivered \subseteq ActionIds
    /\ scenario \in {"start", "pre_done", "quiet_done", "post_done", "off"}
    /\ analysis_failed \subseteq ActionIds
    /\ restarts \in 0..MaxRestarts
    /\ \A id \in ActionIds : sent[id] \in 0..MaxSent

(***************************************************************************)
(* Vocabulary of the properties.                                           *)
(***************************************************************************)
\* the for loop of the cycle has handled every entry (line 155 is reached)
CycleDone == pc = "events" /\ idx > Len(events_to_process)

\* the snapshot the cycle serves: the contents of SCHEDULE_FILE
Snapshot == load_json_file(schedule_file, << >>)

\* the persisted ledger as a set of ids
Ledger == load_json_file(state_file, {})

WellFormed(events) == \A k \in 1..Len(events) : IsIsoDate(events[k].date)

\* the operations of kind op on action id in the log of the cycle
LogOps(op, id) == { i \in 1..Len(log) : log[i].op = op /\ log[i].id = id }

\* the operations of kind op made for the entry at position at
EntryOps(op, at) == { i \in 1..Len(log) : log[i].op = op /\ log[i].at = at }

IsPostId(id) == id \in { post_analysis_id(e) : e \in EventUniverse }

(***************************************************************************)
(* C1: in a run without crash and with a readable ledger, the notification *)
(* of an action id is dispatched at most once, whatever the calendar       *)
(* fetches return.                                                         *)
(***************************************************************************)
C1_AtMostOnce == \A id \in ActionIds : sent[id] <= 1

(***************************************************************************)
(* C2: when the for loop of a cycle is over, for every entry of the        *)
(* snapshot that passes the filters and whose pre-alert id was not in the  *)
(* ledger, the pre-alert was dispatched in the cycle if and only if        *)
(* 0 < scheduledAt - now <= PRE_ALERT_MINUTES.                             *)
(***************************************************************************)
C2_PreAlertIffWindow ==
    (CycleDone /\ WellFormed(Snapshot)) =>
        \A k \in 1..Len(Snapshot) :
            LET event == Snapshot[k]
                time_to_event == fromisoformat(event.date) - now_utc
            IN  (PassesFilter(event) /\ pre_alert_id(event) \notin processed_ids)
                => (LogOps("send", pre_alert_id(event)) # {}
                    <=> (0 < time_to_event
                         /\ time_to_event <= timedelta(PRE_ALERT_MINUTES)))

(***************************************************************************)
(* C3: an action id that is in the ledger when the cycle loads it gets no  *)
(* notification and no enrichment call in that cycle; a cycle in which     *)
(* every action of every entry is already recorded dispatches nothing.     *)
(***************************************************************************)
C3_RecordedNeverRedone ==
    /\ \A i \in 1..Len(log) :
          log[i].op \in {"send", "analyze"} => log[i].id \notin processed_ids
    /\ (/\ CycleDone
        /\ \A k \in 1..Len(events_to_process) :
              LET event == events_to_process[k]
              IN  (PassesFilter(event) /\ IsIsoDate(event.date)) =>
                      /\ pre_alert_id(event) \in processed_ids
                      /\ post_analysis_id(event) \in processed_ids)
       => log = << >>

\* a cycle over an entry whose pre-alert is in its window and recorded, and
\* one whose post-analysis is in its window and recorded
C3_Witness ==
    /\ CycleDone
    /\ log = << >>
    /\ \E k \in 1..Len(events_to_process) :
          LET event == events_to_process[k]
          IN  /\ PassesFilter(event) /\ IsIsoDate(event.date)
              /\ \/ /\ PreAlertDue(event, now_utc)
                    /\ pre_alert_id(event) \in processed_ids
                 \/ /\ ActualPresent(event) /\ PostAnalysisDue(event, now_utc)
                    /\ post_analysis_id(event) \in processed_ids

(***************************************************************************)
(* C4: no enrichment call, notification or ledger record of a              *)
(* post-analysis is made for an entry whose actual value is None; an entry *)
(* whose actual value is 0, inside the post window and not recorded, gets  *)
(* its enrichment call.                                                    *)
(***************************************************************************)
C4_PostNeedsActual ==
    /\ pc \in {"events", "except"} =>
          \A i \in 1..Len(log) :
              IsPostId(log[i].id) => events_to_process[log[i].at].actual # None
    /\ CycleDone =>
          \A k \in 1..Len(events_to_process) :
              LET event == events_to_process[k]
              IN  (/\ event.actual = Some(0)
                   /\ PassesFilter(event) /\ IsIsoDate(event.date)
                   /\ PostAnalysisDue(event, now_utc)
                   /\ post_analysis_id(event) \notin processed_ids)
                  => EntryOps("analyze", k) # {}

\* a cycle inside the post window over an entry without actual and an entry
\* with actual 0, the second one analysed
C4_Witness ==
    /\ CycleDone
    /\ \E k, l \in 1..Len(events_to_process) :
          /\ events_to_process[k].actual = None
          /\ PassesFilter(events_to_process[k])
          /\ IsIsoDate(events_to_process[k].date)
          /\ PostAnalysisDue(events_to_process[k], now_utc)
          /\ EntryOps("analyze", k) = {}
          /\ events_to_process[l].actual = Some(0)
          /\ EntryOps("analyze", l) # {}

(***************************************************************************)
(* C5: an entry whose country is not in COUNTRY_FILTER, or whose impact is *)
(* not in IMPACT_FILTER, never gets a pre-alert or a post-analysis, and    *)
(* its ids never enter the ledger.                                         *)
(***************************************************************************)
Filtered(event) ==
    event.country \notin COUNTRY_FILTER \/ event.impact \notin IMPACT_FILTER

C5_FilteredNeverActs ==
    \A event \in EventUniverse :
        Filtered(event) =>
            \A id \in {pre_alert_id(event), post_analysis_id(event)} :
                /\ sent[id] = 0
                /\ id \notin state_file.data
                /\ \A i \in 1..Len(log) : log[i].id # id

\* an Active cycle has handled an entry of a foreign country and an entry of
\* an unlisted impact, both released inside the post window
C5_Witness ==
    /\ CycleDone
    /\ cycle \in {"live", "stale"}
    /\ \E k, l \in 1..Len(events_to_process) :
          /\ events_to_process[k].country \notin COUNTRY_FILTER
          /\ events_to_process[l].impact \notin IMPACT_FILTER
          /\ \A m \in {k, l} :
                /\ events_to_process[m].actual # None
                /\ IsIsoDate(events_to_process[m].date)
                /\ PostAnalysisDue(events_to_process[m], now_utc)

(***************************************************************************)
(* C6: the trace on the single entry {CPI, US, high, TA}, from an empty    *)
(* ledger, with no failing fetch and no failing analysis.  The first cycle *)
(* of the run, at TA - 3 min, dispatches the pre-alert and the ledger      *)
(* becomes {pre id}; the next one, at TA - 1 min, dispatches nothing and   *)
(* leaves the ledger as it is; the next one, at TA + 30 s with actual 3.1, *)
(* dispatches the post-analysis and the ledger gains the post id.          *)
(***************************************************************************)
C6_ScenarioTrace ==
    (CycleDone /\ ScenarioInput(scenario, now_utc, cycle, Snapshot, log)) =>
        LET pre == pre_alert_id(CPI(None))
            post == post_analysis_id(CPI(None))
        IN  /\ scenario = "start" =>
                  /\ Len(log) = 2
                  /\ log[1].op = "send" /\ log[1].id = pre
                  /\ log[2].op = "save" /\ log[2].id = pre
                  /\ processed_ids = {}
                  /\ Ledger = {pre}
            /\ scenario = "pre_done" =>
                  /\ log = << >>
                  /\ processed_ids = {pre}
                  /\ Ledger = {pre}
            /\ scenario = "quiet_done" =>
                  /\ Len(log) = 3
                  /\ log[1].op = "analyze" /\ log[1].id = post
                  /\ log[2].op = "send" /\ log[2].id = post
                  /\ log[3].op = "save" /\ log[3].id = post
                  /\ processed_ids = {pre}
                  /\ Ledger = {pre, post}

\* the three cycles of the trace have run
C6_Witness ==
    /\ scenario = "post_done"
    /\ now_utc = TA + 30
    /\ Ledger = {pre_alert_id(CPI(None)), post_analysis_id(CPI(None))}

(***************************************************************************)
(* C7: when the ledger file was deleted or made unreadable, the cycle      *)
(* treats it as empty and every action that is due in the cycle fires once *)
(* more.  An action that was dispatched in an earlier cycle and is missing *)
(* from the ledger the cycle loaded has lost its record with the file: if  *)
(* its entry is in the snapshot, passes the filters and is inside its      *)
(* window, the pre-alert is dispatched and recorded again, and the         *)
(* post-analysis is attempted again, in this cycle.                        *)
(***************************************************************************)
C7_LostLedgerFiresAgain ==
    (CycleDone /\ WellFormed(Snapshot)) =>
        \A k \in 1..Len(Snapshot) :
            LET event == Snapshot[k]
                time_to_event == fromisoformat(event.date) - now_utc
            IN  PassesFilter(event) =>
                  /\ (/\ 0 < time_to_event
                      /\ time_to_event <= timedelta(PRE_ALERT_MINUTES)
                      /\ sent[pre_alert_id(event)] >= 1
                      /\ pre_alert_id(event) \notin processed_ids)
                     => /\ LogOps("send", pre_alert_id(event)) # {}
                        /\ pre_alert_id(event) \in Ledger
                  /\ (/\ event.actual # None
                      /\ 0 <= 0 - time_to_event
                      /\ 0 - time_to_event < timedelta(POST_ANALYSIS_MINUTES)
                      /\ sent[post_analysis_id(event)] >= 1
                      /\ post_analysis_id(event) \notin processed_ids)
                     => LogOps("analyze", post_analysis_id(event)) # {}

\* the same statement for the cycles that are not Dormant
C7_SanityActive == cycle # "dormant" => C7_LostLedgerFiresAgain

(***************************************************************************)
(* C8: a post-analysis notification is sent only right after the           *)
(* enrichment call made for the same entry in the same cycle returned a    *)
(* result without error marker; after an enrichment call that returned an  *)
(* error marker or an empty result nothing is sent and nothing is saved    *)
(* for that entry's post-analysis, and the ledger holds exactly what was   *)
(* loaded plus what the cycle saved.                                       *)
(***************************************************************************)
C8_SendOnlyAfterAnalysis ==
    /\ \A i \in 1..Len(log) :
          (log[i].op \in {"send", "save"} /\ IsPostId(log[i].id)) =>
              \E j \in 1..(i - 1) :
                  /\ log[j].op = "analyze" /\ log[j].res = "ok"
                  /\ log[j].id = log[i].id /\ log[j].at = log[i].at
    /\ \A i \in 1..Len(log) :
          (log[i].op = "analyze" /\ log[i].res \in {"error", "empty"}) =>
              \A j \in 1..Len(log) :
                  (log[j].id = log[i].id /\ log[j].at = log[i].at)
                  => log[j].op = "analyze"
    /\ cycle \in {"dormant", "live", "stale"} =>
          Ledger = processed_ids \cup
                   { log[i].id : i \in { j \in 1..Len(log) : log[j].op = "save" } }

\* a cycle whose enrichment call returned the error marker: nothing sent,
\* nothing recorded
C8_Witness ==
    /\ CycleDone
    /\ \E i \in 1..Len(log) :
          /\ log[i].op = "analyze" /\ log[i].res = "error"
          /\ LogOps("send", log[i].id) = {}
          /\ log[i].id \notin Ledger

(***************************************************************************)
(* C9: a notification whose delivery failed is followed by the save of its *)
(* id in the same cycle, for pre-alerts and post-analyses; an id whose     *)
(* delivery failed in an earlier cycle is in the ledger and is not sent    *)
(* again.                                                                  *)
(***************************************************************************)
C9_FailedDeliveryRecorded ==
    /\ \A i \in 1..Len(log) :
          (log[i].op = "send" /\ log[i].res = "failed"
              /\ log[i].id \in ActionIds) =>
              /\ i < Len(log)
              /\ log[i + 1].op = "save" /\ log[i + 1].id = log[i].id
              /\ log[i].id \in Ledger
    /\ pc \in {"events", "except"} =>
          \A id \in undelivered : id \in Ledger /\ LogOps("send", id) = {}

\* a later cycle finds the pre-alert of a failed delivery inside its window
C9_Witness ==
    /\ CycleDone
    /\ \E k \in 1..Len(events_to_process) :
          /\ IsIsoDate(events_to_process[k].date)
          /\ PreAlertDue(events_to_process[k], now_utc)
          /\ pre_alert_id(events_to_process[k]) \in undelivered

(***************************************************************************)
(* C10: a cycle whose burst fetch failed handles the entries of the last   *)
(* good snapshot: every pre-alert that is inside its window and not in the *)
(* loaded ledger is dispatched and recorded in the cycle, and, the entries *)
(* being well formed, the exception handler is not entered.                *)
(***************************************************************************)
C10_FailedBurstServesSnapshot ==
    cycle = "stale" =>
        /\ events_to_process = Snapshot
        /\ WellFormed(Snapshot) =>
              /\ pc = "events"
              /\ \A i \in 1..Len(log) : log[i].id # ErrorMessage
        /\ CycleDone =>
              \A k \in 1..Len(Snapshot) :
                  LET event == Snapshot[k]
                      time_to_event == fromisoformat(event.date) - now_utc
                  IN  (/\ ~Filtered(event)
                       /\ 0 < time_to_event
                       /\ time_to_event <= timedelta(PRE_ALERT_MINUTES)
                       /\ pre_alert_id(event) \notin processed_ids)
                      => /\ \E i \in EntryOps("send", k) :
                               log[i].id = pre_alert_id(event)
                         /\ pre_alert_id(event) \in Ledger

\* a cycle whose burst fetch failed has dispatched a pre-alert
C10_Witness ==
    /\ CycleDone
    /\ cycle = "stale"
    /\ \E i \in 1..Len(log) :
          /\ log[i].op = "send"
          /\ log[i].id = pre_alert_id(events_to_process[log[i].at])

(***************************************************************************)
(* C11: a cycle in which a calendar fetch failed, the daily refresh        *)
(* included, serves the last snapshot of SCHEDULE_FILE: when the cycle is  *)
(* over, every well-formed entry of the snapshot that passes the filter,   *)
(* whose pre-alert is due and unrecorded, has had its pre-alert            *)
(* dispatched in that cycle.  Only entries at most 3 min ahead are asked   *)
(* for, so that the cycle is inside the active window as the code tests it.*)
(***************************************************************************)
C11_FailedFetchServesSnapshot ==
    (/\ \/ pc = "idle" /\ cycle = "skipped"
        \/ CycleDone /\ cycle = "stale"
     /\ WellFormed(Snapshot))
    => \A k \in 1..Len(Snapshot) :
          LET event == Snapshot[k]
              time_to_event == fromisoformat(event.date) - now_utc
              recorded == IF cycle = "skipped" THEN Ledger ELSE processed_ids
          IN  (/\ ~Filtered(event)
               /\ 0 < time_to_event
               /\ time_to_event <= timedelta(ACTIVE_AFTER_MINUTES)
               /\ pre_alert_id(event) \notin recorded)
              => LogOps("send", pre_alert_id(event)) # {}

(***************************************************************************)
(* C12: an exception raised in a cycle body does not end the loop.  The    *)
(* step taken from the handler sends exactly one error notification,       *)
(* whatever the send returns, sets a sleep of BACKOFF_SECONDS, longer than *)
(* SLEEP_SECONDS, and leaves the loop at its top; the handler is always    *)
(* left, and while the clock of the model has an instant after the         *)
(* backoff a new cycle starts.                                             *)
(***************************************************************************)
ErrorSends(ops) ==
    { i \in 1..Len(ops) : ops[i].op = "send" /\ ops[i].id = ErrorMessage }

BackedOff == pc = "idle" /\ cycle = "raised"

C12_ExceptionNeverEndsLoop ==
    /\ [][pc = "except" =>
            /\ pc' = "idle"
            /\ Len(log') = Len(log) + 1
            /\ ErrorSends(log') = {Len(log')}
            /\ sleep_for' = BACKOFF_SECONDS
            /\ sleep_for' > SLEEP_SECONDS]_vars
    /\ [][(BackedOff /\ ~BackedOff') => now_utc' >= now_utc + BACKOFF_SECONDS]_vars
    /\ (pc = "except") ~> BackedOff
    /\ (BackedOff /\ \E t \in TimePoints : t >= now_utc + BACKOFF_SECONDS)
          ~> ~BackedOff

\* the handler has run although its error notification could not be
\* delivered, and the loop is about to sleep for the backoff
C12_Witness ==
    /\ BackedOff
    /\ sleep_for = BACKOFF_SECONDS
    /\ log # << >>
    /\ log[Len(log)] = Op("send", ErrorMessage, 0, "failed")

(***************************************************************************)
(* C13: in a run without crash, every step leaves in the persisted ledger  *)
(* exactly what it held before plus the ids saved by the step: no step     *)
(* removes or overwrites an id, a step that saves nothing leaves the       *)
(* ledger as it was, and the ids saved earlier in the same cycle are kept. *)
(***************************************************************************)
SavedIds(ops) ==
    { ops[i].id : i \in { j \in 1..Len(ops) : ops[j].op = "save" } }

C13_LedgerOnlyGrows ==
    [][Ledger' = Ledger \cup
                 (IF pc = "events" /\ pc' = "events" /\ Len(log') > Len(log)
                  THEN SavedIds(SubSeq(log', Len(log) + 1, Len(log')))
                  ELSE {})]_vars

\* two different actions have been recorded in one cycle and both ids are
\* in the persisted ledger
C13_Witness ==
    /\ CycleDone
    /\ \E id1 \in SavedIds(log), id2 \in SavedIds(log) :
          /\ id1 # id2
          /\ {id1, id2} \subseteq Ledger

(***************************************************************************)
(* C14: when the process dies, at any point of save_processed_event        *)
(* included, the ledger file found at the restart is readable and holds    *)
(* either the set persisted before or that set plus ids of the entry that  *)
(* was being handled: it is never empty, truncated or unreadable.          *)
(***************************************************************************)
C14_CrashLeavesWholeLedger ==
    [][restarts' # restarts =>
          /\ state_file'.exists => state_file'.valid
          /\ Ledger \subseteq Ledger'
          /\ Ledger' \subseteq
                Ledger \cup
                (IF pc = "events" /\ idx <= Len(events_to_process)
                 THEN { pre_alert_id(events_to_process[idx]),
                        post_analysis_id(events_to_process[idx]) }
                 ELSE {})]_vars

(***************************************************************************)
(* C15: a cycle makes the burst fetch if and only if some entry of the     *)
(* cached snapshot has scheduledAt - PRE_ALERT_MINUTES <= now <=           *)
(* scheduledAt + POST_ANALYSIS_MINUTES.  Stated for the cycles whose       *)
(* scanned snapshot is still in SCHEDULE_FILE: the dormant ones and those  *)
(* whose burst fetch failed.                                               *)
(***************************************************************************)
C15_ActiveIffDocumentedWindow ==
    (cycle \in {"dormant", "stale"} /\ WellFormed(Snapshot))
    => (cycle = "stale" <=>
          \E k \in 1..Len(Snapshot) :
              LET scheduledAt == fromisoformat(Snapshot[k].date)
              IN  /\ scheduledAt - timedelta(PRE_ALERT_MINUTES) <= now_utc
                  /\ now_utc <= scheduledAt + timedelta(POST_ANALYSIS_MINUTES))

(***************************************************************************)
(* C16, as claimed: the loop comes to a cycle in which both the pre-alert  *)
(* and the post-analysis of one calendar entry are attempted.              *)
(***************************************************************************)
BothPhasesAttempted ==
    \E i \in 1..Len(log), j \in 1..Len(log) :
        /\ log[i].at = log[j].at
        /\ log[i].op = "send" /\ log[i].id[1] = "pre"
        /\ log[j].op = "analyze"

C17_RetriedInsideWindowOnly ==
    /\ CycleDone =>
          \A k \in 1..Len(Snapshot) :
              LET event == Snapshot[k]
                  time_since_release == now_utc - fromisoformat(event.date)
              IN  (/\ ~Filtered(event)
                   /\ event.actual # None
                   /\ 0 <= time_since_release
                   /\ time_since_release < timedelta(POST_ANALYSIS_MINUTES)
                   /\ post_analysis_id(event) \in analysis_failed
                   /\ post_analysis_id(event) \notin processed_ids)
                  => \E i \in EntryOps("analyze", k) :
                         log[i].id = post_analysis_id(event)
    /\ \A i \in 1..Len(log) :
          log[i].id[1] = "post" =>
              LET time_since_release == now_utc - fromisoformat(log[i].id[4])
              IN  /\ 0 <= time_since_release
                  /\ time_since_release < timedelta(POST_ANALYSIS_MINUTES)

\* an enrichment that failed in an earlier cycle is attempted again and
\* succeeds
C17_Witness ==
    /\ CycleDone
    /\ \E i \in 1..Len(log) :
          /\ log[i].op = "analyze"
          /\ log[i].res = "ok"
          /\ log[i].id \in analysis_failed

(***************************************************************************)
(* C18: no entry is scanned, classified or dispatched in a cycle unless a  *)
(* daily fetch made by the running process has succeeded for the UTC date  *)
(* of the cycle, the first cycle after a start or a restart included; a    *)
(* cycle whose daily fetch failed handles nothing.                         *)
(***************************************************************************)
C18_FetchedTodayBeforeHandling ==
    /\ (pc # "idle" \/ cycle \in {"raised", "dormant", "live", "stale"})
          => fetched_for_date = Some(now_utc \div SecondsPerDay)
    /\ cycle = "skipped" =>
          /\ pc = "idle"
          /\ log = << >>
          /\ fetched_for_date # Some(now_utc \div SecondsPerDay)

\* the first cycle after a restart handles entries on a day for which the
\* process that died had already fetched the calendar
C18_Witness ==
    /\ restarts > 0
    /\ pc = "events"
    /\ log # << >>
    /\ fetched_for_date = Some(now_utc \div SecondsPerDay)

(***************************************************************************)
(* C19: a Dormant cycle has no effect beyond the daily refresh.  Its list  *)
(* of entries to handle is empty and it logs no enrichment, notification   *)
(* or save, whatever the snapshot holds; the step that enters it and the   *)
(* steps inside it leave the ledger file and the send counts as they       *)
(* were, and, when no daily fetch was made, SCHEDULE_FILE too (no burst    *)
(* fetch has written it).                                                  *)
(***************************************************************************)
C19_DormantCycleIsIdle ==
    /\ [](cycle = "dormant" =>
             /\ events_to_process = << >>
             /\ log = << >>
             /\ Ledger = processed_ids)
    /\ [][cycle' = "dormant" =>
             /\ state_file' = state_file
             /\ sent' = sent
             /\ fetched_for_date' = fetched_for_date
                   => schedule_file' = schedule_file]_vars

\* a Dormant cycle is over whose snapshot holds an entry with a pre-alert
\* due by the window rules and an entry with an actual value
C19_Witness ==
    /\ CycleDone
    /\ cycle = "dormant"
    /\ \E k \in 1..Len(Snapshot) :
          /\ ~Filtered(Snapshot[k])
          /\ IsIsoDate(Snapshot[k].date)
          /\ 0 < fromisoformat(Snapshot[k].date) - now_utc
          /\ fromisoformat(Snapshot[k].date) - now_utc
                <= timedelta(PRE_ALERT_MINUTES)
          /\ pre_alert_id(Snapshot[k]) \notin Ledger
    /\ \E k \in 1..Len(Snapshot) : Snapshot[k].actual # None

(***************************************************************************)
(* C20: an action id is written to the ledger only after the notification  *)
(* for it has been sent in the same cycle.  In every state, process        *)
(* deaths at any point included, each id of the persisted ledger has been  *)
(* sent at least once, and each save of a cycle directly follows the send  *)
(* of the same id for the same entry.                                      *)
(***************************************************************************)
C20_RecordedOnlyAfterSend ==
    /\ \A id \in Ledger : sent[id] >= 1
    /\ \A i \in 1..Len(log) :
          log[i].op = "save" =>
              /\ i > 1
              /\ log[i - 1].op = "send"
              /\ log[i - 1].id = log[i].id
              /\ log[i - 1].at = log[i].at

\* the process has died after a send and before the save of its id: the
\* ledger file was never opened for writing and the id is unrecorded
C20_Witness ==
    /\ cycle = "crashed"
    /\ ~state_file.exists
    /\ \E id \in ActionIds : sent[id] = 1 /\ id \notin Ledger

====
